---- MODULE Spec2Model ----
(***************************************************************************)
(* A model of the d2mpq archive engine of D2Shared                         *)
(* (src/d2data/d2ds1/wallrecord.go, package d2mpq, lines 149-501): the     *)
(* process-wide archive registry (mpqCache, mpqMutex), Load, Close,        *)
(* FileExists, ReadFile, GetFileList and the seed calculation.             *)
(*                                                                         *)
(* Go strings are modelled as sequences of byte values (0..255); uint32    *)
(* values as pairs <<hi, lo>> of 16-bit halves, with all arithmetic        *)
(* reduced modulo 2^32.                                                    *)
(***************************************************************************)
EXTENDS Integers, Sequences, FiniteSets, TLC

(***************************************************************************)
(* uint32 arithmetic                                                       *)
(***************************************************************************)
Half == 65536

U32(hi, lo) == <<hi, lo>>

U32Of(n) == <<(n \div Half) % Half, n % Half>>

\* a + b on uint32 (wraps modulo 2^32)
Add32(a, b) ==
    LET lo == a[2] + b[2]
    IN  <<(a[1] + b[1] + (lo \div Half)) % Half, lo % Half>>

RECURSIVE XorBits(_, _, _)
XorBits(a, b, n) ==
    IF n = 0 THEN 0
    ELSE (((a % 2) + (b % 2)) % 2) + (2 * XorBits(a \div 2, b \div 2, n - 1))

\* a ^ b on uint32
Xor32(a, b) == <<XorBits(a[1], b[1], 16), XorBits(a[2], b[2], 16)>>

\* a << 5 on uint32
Shl5(a) == <<(a[1] * 32 + (a[2] \div 2048)) % Half, (a[2] * 32) % Half>>

(***************************************************************************)
(* The keystream table (CryptoBuffer).  Its generator is not part of the   *)
(* source files at hand; it is the format's seeded generator.              *)
(***************************************************************************)
CryptoModulus == 2796203

CryptoSeed0 == 1048577

RECURSIVE CryptoIter(_, _)
CryptoIter(s, n) ==
    IF n = 0 THEN s
    ELSE LET t == (s * 125 + 3) % CryptoModulus
         IN  IF t >= 0 THEN CryptoIter(t, n - 1) ELSE 0

RECURSIVE CryptoCheckpoints(_, _)
CryptoCheckpoints(acc, j) ==
    IF j = 0 THEN acc
    ELSE LET t == CryptoIter(acc[Len(acc)], 64)
         IN  IF t >= 0 THEN CryptoCheckpoints(Append(acc, t), j - 1) ELSE acc

\* CryptoCheckpointTable[j+1] is the generator's state after 64*j steps
CryptoCheckpointTable == CryptoCheckpoints(<<CryptoSeed0>>, 40)

CryptoSeedAt(n) == CryptoIter(CryptoCheckpointTable[(n \div 64) + 1], n % 64)

\* the generator fills index1, index1+0x100, ..., index1+0x400 for index1 = 0..255
CryptoBufferTable ==
    [i \in 0..1279 |->
        LET k == (i % 256) * 5 + (i \div 256)
        IN  U32(CryptoSeedAt(2 * k + 1) % Half, CryptoSeedAt(2 * k + 2) % Half)]

CryptoBuffer(i) == CryptoBufferTable[i]

(***************************************************************************)
(* Strings                                                                 *)
(***************************************************************************)
\* strings.ToUpper / strings.ToLower on the ASCII range
UpperByte(c) == IF c >= 97 /\ c <= 122 THEN c - 32 ELSE c

LowerByte(c) == IF c >= 65 /\ c <= 90 THEN c + 32 ELSE c

ToUpper(s) == [i \in 1..Len(s) |-> UpperByte(s[i])]

ToLower(s) == [i \in 1..Len(s) |-> LowerByte(s[i])]

HasPrefixAt(s, i, old) ==
    /\ i + Len(old) - 1 <= Len(s)
    /\ \A j \in 1..Len(old) : s[i + j - 1] = old[j]

\* strings.ReplaceAll(s, old, new), old non-empty: leftmost non-overlapping matches
RECURSIVE ReplaceFrom(_, _, _, _)
ReplaceFrom(s, i, old, new) ==
    IF i > Len(s) THEN <<>>
    ELSE IF HasPrefixAt(s, i, old)
         THEN new \o ReplaceFrom(s, i + Len(old), old, new)
         ELSE <<s[i]>> \o ReplaceFrom(s, i + 1, old, new)

ReplaceAll(s, old, new) == ReplaceFrom(s, 1, old, new)

(***************************************************************************)
(* hashString                                                              *)
(***************************************************************************)
HashSeed1 == U32(32749, 32749)      \* 0x7FED7FED

HashSeed2 == U32(61166, 61166)      \* 0xEEEEEEEE

RECURSIVE HashLoop(_, _, _, _, _)
HashLoop(up, i, hashType, seed1, seed2) ==
    IF i > Len(up) THEN seed1
    ELSE LET char == up[i]
             s1 == Xor32(CryptoBuffer(hashType * 256 + char), Add32(seed1, seed2))
             s2 == Add32(Add32(Add32(Add32(U32Of(char), s1), seed2), Shl5(seed2)), U32Of(3))
         IN  HashLoop(up, i + 1, hashType, s1, s2)

(***************************************************************************)
(* Request names, and the names the archives on disk store                 *)
(***************************************************************************)
Slash == 47

Backslash == 92

LangToken == <<123, 76, 65, 78, 71, 125>>          \* "{LANG}"

LanguageCode == <<69, 78, 71>>                     \* d2resource.LanguageCode, "ENG"

ListFileName == <<40, 108, 105, 115, 116, 102, 105, 108, 101, 41>>   \* "(listfile)"

Name_lang_A == LangToken \o <<47, 65>>             \* "{LANG}/A"

Name_eng_a == <<101, 110, 103, 92, 97>>            \* "eng\a"

Name_e_a == <<101, 92, 97>>                        \* "e\a"

Name_a == <<97>>                                   \* "a"

\* the names callers pass to ReadFile and FileExists
Names == {Name_lang_A, Name_eng_a, Name_e_a, ListFileName}

\* the names whose hashes the archives' hash tables hold
StoredNames == {Name_eng_a, ListFileName}

(***************************************************************************)
(* hashString, with the values for the names in use computed once          *)
(***************************************************************************)
HashedStrings == Names \cup StoredNames \cup {Name_a}

HashMemo == [s \in HashedStrings |-> [t \in 1..3 |-> HashLoop(ToUpper(s), 1, t, HashSeed1, HashSeed2)]]

hashString(key, hashType) ==
    IF key \in HashedStrings /\ hashType \in 1..3
    THEN HashMemo[key][hashType]
    ELSE HashLoop(ToUpper(key), 1, hashType, HashSeed1, HashSeed2)

(***************************************************************************)
(* Archive contents: file flags, block tables, hash tables, stored data    *)
(***************************************************************************)
Zero32 == U32(0, 0)

FileFixKey == U32(2, 0)            \* 0x00020000

FileExistsFlag == U32(32768, 0)    \* 0x80000000

RECURSIVE AndBits(_, _, _)
AndBits(a, b, n) ==
    IF n = 0 THEN 0
    ELSE ((a % 2) * (b % 2)) + (2 * AndBits(a \div 2, b \div 2, n - 1))

And32(a, b) == <<AndBits(a[1], b[1], 16), AndBits(a[2], b[2], 16)>>

HasFlag(v, flag) == And32(v.Flags, flag) # Zero32

\* BlockTableEntry{}
ZeroBlockTableEntry ==
    [FilePosition |-> Zero32, CompressedFileSize |-> Zero32,
     UncompressedFileSize |-> Zero32, Flags |-> Zero32,
     FileName |-> <<>>, EncryptionSeed |-> Zero32]

BlockEntry(pos, size, flags) ==
    [FilePosition |-> U32Of(pos), CompressedFileSize |-> U32Of(size),
     UncompressedFileSize |-> U32Of(size), Flags |-> flags,
     FileName |-> <<>>, EncryptionSeed |-> Zero32]

NUL == 0

CR == 13

LF == 10

\* the decoded bytes stored at each file position of the archives on disk
DiskContent(pos) ==
    CASE pos = 16 -> <<104, 105>>                              \* "hi"
      [] pos = 32 -> <<97, LF, LF, 98>>                        \* "a\n\nb"
      [] OTHER -> <<>>

BlockTables ==
    { <<BlockEntry(16, 2, FileExistsFlag),
        BlockEntry(32, 4, Add32(FileExistsFlag, FileFixKey))>> }

\* the block tables of the model all have this length, so BlockIndex 2 is out of bounds
BlockIndexes == {0, 1, 2}

HashEntry(name, idx) ==
    [NamePartA |-> hashString(name, 1), NamePartB |-> hashString(name, 2),
     Locale |-> 0, Platform |-> 0, BlockIndex |-> U32Of(idx)]

HashEntries == {HashEntry(n, i) : n \in StoredNames, i \in BlockIndexes}

MaxHashEntries == 2

RECURSIVE SeqsUpTo(_, _)
SeqsUpTo(S, n) ==
    IF n = 0 THEN {<<>>}
    ELSE LET shorter == SeqsUpTo(S, n - 1)
         IN  shorter \cup {Append(q, e) : q \in {r \in shorter : Len(r) = n - 1}, e \in S}

HashTables == SeqsUpTo(HashEntries, MaxHashEntries)

(***************************************************************************)
(* State                                                                   *)
(*   mpqCache  the process-wide registry: path -> object, or Nil           *)
(*   heap      the MPQ objects that were registered (object -> MPQ)        *)
(*   last      what the last completed call did and returned               *)
(*   mpqMutex  the set of threads holding mpqMutex                         *)
(*   pc, local the position and the locals of each thread (the             *)
(*             specifications with threads)                                *)
(***************************************************************************)
VARIABLES mpqCache, heap, last, mpqMutex, pc, local

vars == <<mpqCache, heap, last, mpqMutex, pc, local>>

Nil == "nil"

Objs == {"o1", "o2", "o3"}

Paths == {"d2data.mpq"}

\* &MPQ{FileName: fileName, fileCache: make(map[string][]byte)} with the file and the tables set
MPQ(fileName, file, hashTable, blockTable, cache) ==
    [FileName |-> fileName, File |-> file, HashTableEntries |-> hashTable,
     BlockTableEntries |-> blockTable, fileCache |-> cache]

EmptyCache == <<>>

ToNat(u) == u[1] * Half + u[2]

(***************************************************************************)
(* File Locator                                                            *)
(***************************************************************************)
ZeroHashTableEntry ==
    [NamePartA |-> Zero32, NamePartB |-> Zero32, Locale |-> 0, Platform |-> 0,
     BlockIndex |-> Zero32]

SetMin(S) == CHOOSE m \in S : \A o \in S : m <= o

getFileHashEntry(v, fileName) ==
    LET hashA == hashString(fileName, 1)
        hashB == hashString(fileName, 2)
        hits == {idx \in 1..Len(v.HashTableEntries) :
                    /\ v.HashTableEntries[idx].NamePartA = hashA
                    /\ v.HashTableEntries[idx].NamePartB = hashB}
    IN  IF hits = {}
        THEN [entry |-> ZeroHashTableEntry, err |-> "file not found"]
        ELSE [entry |-> v.HashTableEntries[SetMin(hits)], err |-> Nil]

getFileBlockData(v, fileName) ==
    LET r == getFileHashEntry(v, fileName)
    IN  IF r.err # Nil \/ ToNat(r.entry.BlockIndex) >= Len(v.BlockTableEntries)
        THEN [entry |-> ZeroBlockTableEntry, err |-> r.err]
        ELSE [entry |-> v.BlockTableEntries[ToNat(r.entry.BlockIndex) + 1], err |-> Nil]

FileExists(v, fileName) == getFileHashEntry(v, fileName).err = Nil

(***************************************************************************)
(* Seed calculation                                                        *)
(***************************************************************************)
RECURSIVE StripTrailing(_, _)
StripTrailing(s, c) ==
    IF Len(s) > 0 /\ s[Len(s)] = c THEN StripTrailing(SubSeq(s, 1, Len(s) - 1), c) ELSE s

LastIndexOf(s, c) ==
    LET at == {i \in 1..Len(s) : s[i] = c}
    IN  IF at = {} THEN 0 ELSE CHOOSE m \in at : \A o \in at : o <= m

\* path.Base: the separator is '/'
PathBase(path) ==
    IF path = <<>> THEN <<46>>
    ELSE LET p == StripTrailing(path, Slash)
             q == SubSeq(p, LastIndexOf(p, Slash) + 1, Len(p))
         IN  IF q = <<>> THEN <<Slash>> ELSE q

calculateEncryptionSeed(v) ==
    LET fileName == PathBase(v.FileName)
        seed == hashString(fileName, 3)
    IN  IF ~HasFlag(v, FileFixKey)
        THEN [v EXCEPT !.EncryptionSeed = seed]
        ELSE [v EXCEPT !.EncryptionSeed =
                 Xor32(Add32(seed, v.FilePosition), v.UncompressedFileSize)]

(***************************************************************************)
(* ReadFile                                                                *)
(***************************************************************************)
\* the first three statements of ReadFile
Normalize(fileName) ==
    ReplaceAll(ToLower(ReplaceAll(fileName, LangToken, LanguageCode)),
               <<Slash>>, <<Backslash>>)

\* Normalize, with the values for the request names computed once
NormalizeMemo == [n \in Names |-> Normalize(n)]

NormalizeName(fileName) ==
    IF fileName \in Names THEN NormalizeMemo[fileName] ELSE Normalize(fileName)

\* a lookup that takes an empty buffer for a missing one (len(cached) > 0)
CacheHitNonEmpty(cache, key) == key \in DOMAIN cache /\ Len(cache[key]) > 0

\* cached := v.fileCache[fileName]; cached != nil
CacheHit(cache, key) == key \in DOMAIN cache

CachePut(cache, key, buffer) ==
    [k \in (DOMAIN cache) \cup {key} |-> IF k = key THEN buffer ELSE cache[k]]

\* How the stream of a file behaves: it is created and read ("ok"), or CreateStream
\* fails ("createErr").  A closed file handle gives no stream.
StreamOutcomes == {"ok", "createErr"}

StreamPossible(v, outcome) == v.File = "open" \/ outcome # "ok"

CreateStream(v, fileBlockData, outcome) ==
    IF outcome = "createErr" THEN "stream error" ELSE Nil

\* make([]byte, size) filled by mpqStream.Read(buffer, 0, size)
StreamRead(fileBlockData) ==
    LET size == ToNat(fileBlockData.UncompressedFileSize)
        data == DiskContent(ToNat(fileBlockData.FilePosition))
    IN  [i \in 1..size |-> IF i <= Len(data) THEN data[i] ELSE 0]

\* The result of v.ReadFile(fileName): the bytes, the error, the content cache after
\* the call, and what the call ran.  ReadResult is a call that returned before the
\* File Locator gave an entry.
ReadResult(v, key, data, err, located) ==
    [data |-> data, err |-> err, fileCache |-> v.fileCache, key |-> key,
     located |-> located, extracted |-> FALSE,
     block |-> ZeroBlockTableEntry, seed |-> Zero32]

\* ReadFile from CreateStream on
ReadStream(v, key, block, fileBlockData, err, buffer) ==
    [data |-> IF err # Nil THEN <<>> ELSE buffer,
     err |-> err,
     fileCache |-> IF err # Nil THEN v.fileCache ELSE CachePut(v.fileCache, key, buffer),
     key |-> key, located |-> TRUE, extracted |-> TRUE,
     block |-> block, seed |-> fileBlockData.EncryptionSeed]

\* ReadFile from the File Locator's answer on
ReadLocated(v, key, r, outcome) ==
    IF r.err # Nil
    THEN ReadResult(v, key, <<>>, r.err, TRUE)
    ELSE ReadStream(v, key, r.entry,
                    calculateEncryptionSeed([r.entry EXCEPT !.FileName = ToLower(key)]),
                    CreateStream(v, r.entry, outcome),
                    StreamRead(r.entry))

\* ReadFile from the cache lookup on
ReadKey(v, key, outcome) ==
    IF CacheHit(v.fileCache, key)
    THEN ReadResult(v, key, v.fileCache[key], Nil, FALSE)
    ELSE ReadLocated(v, key, getFileBlockData(v, key), outcome)

ReadFile(v, fileName, outcome) == ReadKey(v, NormalizeName(fileName), outcome)

(***************************************************************************)
(* GetFileList                                                             *)
(***************************************************************************)
\* bufio.ScanLines's dropCR
dropCR(data) ==
    IF Len(data) > 0 /\ data[Len(data)] = CR THEN SubSeq(data, 1, Len(data) - 1) ELSE data

FirstIndexOf(s, c) ==
    LET at == {i \in 1..Len(s) : s[i] = c}
    IN  IF at = {} THEN 0 ELSE SetMin(at)

\* the tokens of bufio.NewScanner(strings.NewReader(raw)) with bufio.ScanLines
RECURSIVE ScanLines(_)
ScanLines(raw) ==
    IF raw = <<>> THEN <<>>
    ELSE LET i == FirstIndexOf(raw, LF)
         IN  IF i = 0 THEN <<dropCR(raw)>>
             ELSE <<dropCR(SubSeq(raw, 1, i - 1))>> \o ScanLines(SubSeq(raw, i + 1, Len(raw)))

\* strings.TrimRight(string(data), "\x00") and the scan
ParseFileList(data) == ScanLines(StripTrailing(data, NUL))

(***************************************************************************)
(* Load                                                                    *)
(***************************************************************************)
\* what the file on disk holds where the header is read
HeaderKinds == {"ok", "short", "badmagic"}

\* the seek or read of the table loads that fails, if any
IOFaults == {"none", "hashSeek", "hashRead", "blockSeek", "blockRead"}

\* a readHeader that loads the tables before it compares the magic
readHeaderTablesFirst(hdr, io) ==
    IF hdr = "short"
    THEN [err |-> "unexpected EOF", panic |-> FALSE, tables |-> "none"]
    ELSE IF io \in {"hashSeek", "hashRead"}
    THEN [err |-> Nil, panic |-> TRUE, tables |-> "hash"]
    ELSE IF io \in {"blockSeek", "blockRead"}
    THEN [err |-> Nil, panic |-> TRUE, tables |-> "block"]
    ELSE IF hdr = "badmagic"
    THEN [err |-> "invalid mpq header", panic |-> FALSE, tables |-> "both"]
    ELSE [err |-> Nil, panic |-> FALSE, tables |-> "both"]

\* v.readHeader(): the error it returns, whether it panics, and how far the table
\* loads got ("none": not started, "hash": loadHashTable failed, "block":
\* loadBlockTable failed, "both": both tables are loaded)
readHeader(hdr, io) ==
    IF hdr = "short"
    THEN [err |-> "unexpected EOF", panic |-> FALSE, tables |-> "none"]
    ELSE IF hdr = "badmagic"
    THEN [err |-> "invalid mpq header", panic |-> FALSE, tables |-> "none"]
    ELSE IF io \in {"hashSeek", "hashRead"}
    THEN [err |-> Nil, panic |-> TRUE, tables |-> "hash"]
    ELSE IF io \in {"blockSeek", "blockRead"}
    THEN [err |-> Nil, panic |-> TRUE, tables |-> "block"]
    ELSE [err |-> Nil, panic |-> FALSE, tables |-> "both"]

\* the record of a completed call
NoObs ==
    [op |-> "none", path |-> Nil, obj |-> Nil, name |-> <<>>, key |-> <<>>,
     err |-> Nil, panic |-> FALSE, data |-> <<>>, exists |-> FALSE, list |-> <<>>,
     opened |-> FALSE, hdr |-> Nil, io |-> Nil, tables |-> "none",
     located |-> FALSE, extracted |-> FALSE, block |-> ZeroBlockTableEntry,
     seed |-> Zero32]

NewObject == CHOOSE o \in Objs : o \notin DOMAIN heap

\* mpqCache[fileName] = result
Register(fileName, id) == [mpqCache EXCEPT ![fileName] = id]

Load(fileName) ==
    LET call == [NoObs EXCEPT !.op = "Load", !.path = fileName]
    IN  /\ UNCHANGED <<mpqMutex, pc, local>>
        /\ IF mpqCache[fileName] # Nil
           THEN /\ last' = [call EXCEPT !.obj = mpqCache[fileName]]
                /\ UNCHANGED <<mpqCache, heap>>
           ELSE \E openErr \in BOOLEAN, hdr \in HeaderKinds, io \in IOFaults :
                LET r == readHeader(hdr, io)
                    opened == [call EXCEPT !.opened = TRUE, !.hdr = hdr, !.io = io,
                                           !.tables = r.tables]
                IN  IF openErr
                    THEN /\ last' = [call EXCEPT !.err = "open error"]
                         /\ UNCHANGED <<mpqCache, heap>>
                    ELSE IF r.panic
                    THEN /\ last' = [opened EXCEPT !.panic = TRUE]
                         /\ UNCHANGED <<mpqCache, heap>>
                    ELSE IF r.err # Nil
                    THEN /\ last' = [opened EXCEPT !.err = r.err]
                         /\ UNCHANGED <<mpqCache, heap>>
                    ELSE \E hashTable \in HashTables, blockTable \in BlockTables :
                         /\ DOMAIN heap # Objs
                         /\ heap' = [o \in (DOMAIN heap) \cup {NewObject} |->
                                        IF o = NewObject
                                        THEN MPQ(fileName, "open", hashTable, blockTable,
                                                 EmptyCache)
                                        ELSE heap[o]]
                         /\ mpqCache' = Register(fileName, NewObject)
                         /\ last' = [opened EXCEPT !.obj = NewObject]

(***************************************************************************)
(* Close, FileExists, ReadFile, GetFileList on an archive a caller holds   *)
(***************************************************************************)
\* a Close that also removes the archive from the registry
CloseRegistryEvict(id) == [p \in DOMAIN mpqCache |-> IF mpqCache[p] = id THEN Nil ELSE mpqCache[p]]

\* what v.Close() leaves of the registry and of the object
CloseRegistry(id) == mpqCache

CloseObject(v) == [v EXCEPT !.File = "closed"]

Close(id) ==
    /\ id \in DOMAIN heap
    /\ UNCHANGED <<mpqMutex, pc, local>>
    /\ IF heap[id].File = "closed"
       THEN \* v.File.Close() returns an error: log.Panic
            /\ last' = [NoObs EXCEPT !.op = "Close", !.obj = id, !.panic = TRUE,
                                     !.err = "file already closed"]
            /\ UNCHANGED <<mpqCache, heap>>
       ELSE /\ last' = [NoObs EXCEPT !.op = "Close", !.obj = id]
            /\ heap' = [heap EXCEPT ![id] = CloseObject(heap[id])]
            /\ mpqCache' = CloseRegistry(id)

DoFileExists(id, fileName) ==
    /\ id \in DOMAIN heap
    /\ last' = [NoObs EXCEPT !.op = "FileExists", !.obj = id, !.name = fileName,
                             !.exists = FileExists(heap[id], fileName)]
    /\ UNCHANGED <<mpqCache, heap, mpqMutex, pc, local>>

ReadObs(op, id, fileName, r) ==
    [NoObs EXCEPT !.op = op, !.obj = id, !.name = fileName, !.key = r.key,
                  !.err = r.err, !.data = r.data, !.located = r.located,
                  !.extracted = r.extracted, !.block = r.block, !.seed = r.seed]

DoReadFile(id, fileName) ==
    /\ id \in DOMAIN heap
    /\ \E outcome \in StreamOutcomes :
        /\ StreamPossible(heap[id], outcome)
        /\ LET r == ReadFile(heap[id], fileName, outcome)
           IN  /\ heap' = [heap EXCEPT ![id].fileCache = r.fileCache]
               /\ last' = ReadObs("ReadFile", id, fileName, r)
    /\ UNCHANGED <<mpqCache, mpqMutex, pc, local>>

GetFileList(id) ==
    /\ id \in DOMAIN heap
    /\ \E outcome \in StreamOutcomes :
        /\ StreamPossible(heap[id], outcome)
        /\ LET r == ReadFile(heap[id], ListFileName, outcome)
               obs == ReadObs("GetFileList", id, ListFileName, r)
           IN  /\ heap' = [heap EXCEPT ![id].fileCache = r.fileCache]
               /\ last' = IF r.err # Nil THEN obs
                          ELSE [obs EXCEPT !.list = ParseFileList(r.data)]
    /\ UNCHANGED <<mpqCache, mpqMutex, pc, local>>

Init ==
    /\ mpqCache = [p \in Paths |-> Nil]
    /\ heap = <<>>
    /\ last = NoObs
    /\ mpqMutex = {}
    /\ pc = <<>>
    /\ local = <<>>

Next ==
    \/ \E fileName \in Paths : Load(fileName)
    \/ \E id \in Objs : Close(id)
    \/ \E id \in Objs, fileName \in Names : DoFileExists(id, fileName)
    \/ \E id \in Objs, fileName \in Names : DoReadFile(id, fileName)
    \/ \E id \in Objs : GetFileList(id)

Spec == Init /\ [][Next]_vars

(***************************************************************************)
(* Properties of the calls made one after the other (Spec)                 *)
(***************************************************************************)
CacheKept(id) ==
    /\ id \in DOMAIN heap'
    /\ \A k \in DOMAIN heap[id].fileCache :
        /\ k \in DOMAIN heap'[id].fileCache
        /\ heap'[id].fileCache[k] = heap[id].fileCache[k]

\* C2: once a ReadFile on an archive has succeeded, its bytes are in the archive's
\* content cache under the normalized name and stay there, and every later ReadFile
\* whose name normalizes to that key returns exactly those bytes with a nil error,
\* without running the File Locator or the Sector Extractor.
C2_CachedReadServedFromCache ==
    [][ /\ (last'.op = "ReadFile" /\ last'.err = Nil) =>
            /\ last'.key = Normalize(last'.name)
            /\ last'.key \in DOMAIN heap'[last'.obj].fileCache
            /\ heap'[last'.obj].fileCache[last'.key] = last'.data
        /\ \A id \in DOMAIN heap :
            /\ CacheKept(id)
            /\ \A k \in DOMAIN heap[id].fileCache :
                (last'.op = "ReadFile" /\ last'.obj = id /\ Normalize(last'.name) = k) =>
                    /\ last'.err = Nil
                    /\ last'.data = heap[id].fileCache[k]
                    /\ ~last'.located
                    /\ ~last'.extracted
      ]_vars

\* a ReadFile of "{LANG}/A" was answered from the cache entry "eng\a"
C2_Witness ==
    /\ last.op = "ReadFile"
    /\ last.name = Name_lang_A
    /\ last.key = Name_eng_a
    /\ last.err = Nil
    /\ ~last.located
    /\ Len(last.data) > 0

\* the errors of the header parser: the short read and the magic mismatch
InvalidHeader == {"unexpected EOF", "invalid mpq header"}

\* C3: a Load that opens a file whose header read is short or whose magic differs
\* from "MPQ\x1A" returns an InvalidHeader error and no archive, without starting
\* the hash table load or the block table load, and registers nothing.
C3_BadHeaderFailsBeforeTables ==
    (last.op = "Load" /\ last.hdr \in {"short", "badmagic"}) =>
        /\ last.err \in InvalidHeader
        /\ last.obj = Nil
        /\ ~last.panic
        /\ last.tables = "none"
        /\ mpqCache[last.path] = Nil

C3_Witness ==
    /\ last.op = "Load"
    /\ last.opened
    /\ last.hdr = "badmagic"
    /\ last.err = "invalid mpq header"

InBlockTable(v, block) == \E i \in 1..Len(v.BlockTableEntries) : v.BlockTableEntries[i] = block

\* C4: when the first hash entry matching a name stores a block index outside the
\* block table, getFileBlockData fails with a non-nil error, and ReadFile reaches the
\* extraction only with a block entry of the block table.
C4_OutOfBoundsIndexIsFileNotFound ==
    /\ \A id \in DOMAIN heap : \A n \in Names :
        LET h == getFileHashEntry(heap[id], NormalizeName(n))
        IN  (h.err = Nil /\ ToNat(h.entry.BlockIndex) >= Len(heap[id].BlockTableEntries)) =>
                getFileBlockData(heap[id], NormalizeName(n)).err # Nil
    /\ (last.op = "ReadFile" /\ last.extracted) => InBlockTable(heap[last.obj], last.block)

\* C6: no call removes an archive from the registry or a buffer from a content
\* cache; Close changes nothing but the file handle; and after a Close, Load of the
\* path returns the registered object without opening the file, and ReadFile of a
\* cached name returns the cached bytes.
C6_CloseKeepsRegistryAndCache ==
    [][ /\ \A p \in DOMAIN mpqCache : mpqCache[p] # Nil => mpqCache'[p] = mpqCache[p]
        /\ \A id \in DOMAIN heap : CacheKept(id)
        /\ (last'.op = "Close" /\ ~last'.panic) =>
            /\ mpqCache' = mpqCache
            /\ heap' = [heap EXCEPT ![last'.obj].File = "closed"]
        /\ \A p \in DOMAIN mpqCache :
            (/\ mpqCache[p] # Nil
             /\ heap[mpqCache[p]].File = "closed"
             /\ last'.op = "Load"
             /\ last'.path = p) =>
                /\ last'.obj = mpqCache[p]
                /\ last'.err = Nil
                /\ ~last'.opened
        /\ \A id \in DOMAIN heap :
            (/\ heap[id].File = "closed"
             /\ last'.op = "ReadFile"
             /\ last'.obj = id
             /\ last'.key \in DOMAIN heap[id].fileCache) =>
                /\ last'.err = Nil
                /\ last'.data = heap[id].fileCache[last'.key]
      ]_vars

\* after a Close, Load has returned the registered archive, whose cache is not empty
C6_Witness ==
    /\ last.op = "Load"
    /\ last.obj # Nil
    /\ ~last.opened
    /\ mpqCache[last.path] = last.obj
    /\ heap[last.obj].File = "closed"
    /\ DOMAIN heap[last.obj].fileCache # {}

\* C7: a Load during which a seek or read of a table load fails returns an IOError
\* to its caller, without a panic, and registers nothing.
C7_TableLoadFailureReturnsIOError ==
    (last.op = "Load" /\ last.hdr = "ok" /\ last.io # "none") =>
        /\ ~last.panic
        /\ last.err # Nil
        /\ last.obj = Nil
        /\ mpqCache[last.path] = Nil

\* the File Locator finds name: the first hash entry matching both hashes holds a
\* block index within the block table
LocatorFinds(v, name) ==
    LET h == getFileHashEntry(v, name)
    IN  h.err = Nil /\ ToNat(h.entry.BlockIndex) < Len(v.BlockTableEntries)

\* C8: FileExists(name) is true exactly when the File Locator finds name.
C8_FileExistsIffLocatorFinds ==
    last.op = "FileExists" => (last.exists <=> LocatorFinds(heap[last.obj], last.name))

\* the last component of a backslash-separated name
BaseName(name) == SubSeq(name, LastIndexOf(name, Backslash) + 1, Len(name))

ExpectedSeed(key, block) ==
    LET seed == hashString(BaseName(key), 3)
    IN  IF HasFlag(block, FileFixKey)
        THEN Xor32(Add32(seed, block.FilePosition), block.UncompressedFileSize)
        ELSE seed

\* C10: the seed ReadFile computes is hashString(basename(name), 3) of the normalized
\* name, then (seed + filePosition) XOR uncompressedSize when the fix-key flag is set.
C10_SeedIsHashOfBaseName ==
    (last.op = "ReadFile" /\ last.extracted) => last.seed = ExpectedSeed(last.key, last.block)

(***************************************************************************)
(* GetFileList over the listfile payloads (SpecList): an archive whose     *)
(* "(listfile)" was read before, so that its payload is in the content     *)
(* cache, or an archive that stores no "(listfile)".                       *)
(***************************************************************************)
MaxListLen == 4

ListBytes == {97, CR, LF, NUL}

ListPayloads == SeqsUpTo(ListBytes, MaxListLen)

ListArchive(payload) ==
    MPQ("d2data.mpq", "open", <<HashEntry(ListFileName, 0)>>,
        <<BlockEntry(64, Len(payload), FileExistsFlag)>>,
        CachePut(EmptyCache, ListFileName, payload))

NoListArchive ==
    MPQ("d2data.mpq", "open", <<>>, <<BlockEntry(16, 2, FileExistsFlag)>>, EmptyCache)

InitList ==
    /\ mpqCache = [p \in Paths |-> "o1"]
    /\ \E v \in {ListArchive(payload) : payload \in ListPayloads} \cup {NoListArchive} :
        heap = [o \in {"o1"} |-> v]
    /\ last = NoObs
    /\ mpqMutex = {}
    /\ pc = <<>>
    /\ local = <<>>

NextList == \E id \in Objs : GetFileList(id)

SpecList == InitList /\ [][NextList]_vars

\* "a.txt\r\nb.txt\r\n\x00\x00"
ExampleListPayload ==
    <<97, 46, 116, 120, 116, CR, LF, 98, 46, 116, 120, 116, CR, LF, NUL, NUL>>

\* C9: GetFileList returns the lines of the payload (its trailing NULs stripped, split
\* at "\n" and "\r\n") and none of them is empty; "a.txt\r\nb.txt\r\n\x00\x00" gives
\* ["a.txt", "b.txt"]; when ReadFile of "(listfile)" fails it returns the error and
\* no list.
C9_ListHasNoEmptyLine ==
    /\ ParseFileList(ExampleListPayload) = <<<<97, 46, 116, 120, 116>>, <<98, 46, 116, 120, 116>>>>
    /\ last.op = "GetFileList" =>
        IF last.err # Nil
        THEN last.list = <<>>
        ELSE \A i \in 1..Len(last.list) : last.list[i] # <<>>

(***************************************************************************)
(* Load called from several threads (SpecLoad), statement by statement     *)
(***************************************************************************)
NumThreads == 2

Threads == 1..NumThreads

LoadPaths == {"d2data.mpq", "d2exp.mpq"}

SampleHashTables == {<<>>, <<HashEntry(ListFileName, 0)>>}

NoResult == MPQ(Nil, "none", <<>>, <<>>, EmptyCache)

\* a thread's locals: the path of its call, the object it builds, and what its last
\* call returned (ret, err), whether it panicked, found the path registered (hit) or
\* opened the file
IdleLocal ==
    [path |-> Nil, result |-> NoResult, ret |-> Nil, err |-> Nil, panic |-> FALSE,
     hit |-> FALSE, opened |-> FALSE]

\* a Load that does not wait for the mutex
MutexNotAwaited(t) == TRUE

\* mpqMutex.Lock() returns
MutexAcquired(t) == mpqMutex = {}

\* a return or a panic of Load: the deferred mpqMutex.Unlock() runs
LoadReturn(t, obj, err, panic) ==
    /\ pc' = [pc EXCEPT ![t] = "idle"]
    /\ local' = [local EXCEPT ![t].ret = obj, ![t].err = err, ![t].panic = panic,
                              ![t].result = NoResult]
    /\ mpqMutex' = mpqMutex \ {t}

LoadLock(t, fileName) ==
    /\ pc[t] = "idle"
    /\ MutexAcquired(t)
    /\ mpqMutex' = mpqMutex \cup {t}
    /\ pc' = [pc EXCEPT ![t] = "check"]
    /\ local' = [local EXCEPT ![t] = [IdleLocal EXCEPT !.path = fileName]]
    /\ UNCHANGED <<mpqCache, heap, last>>

LoadCheck(t) ==
    /\ pc[t] = "check"
    /\ UNCHANGED <<mpqCache, heap, last>>
    /\ IF mpqCache[local[t].path] # Nil
       THEN /\ pc' = [pc EXCEPT ![t] = "idle"]
            /\ local' = [local EXCEPT ![t].ret = mpqCache[local[t].path], ![t].hit = TRUE]
            /\ mpqMutex' = mpqMutex \ {t}
       ELSE /\ pc' = [pc EXCEPT ![t] = "open"]
            /\ local' = [local EXCEPT ![t].result =
                            MPQ(local[t].path, "none", <<>>, <<>>, EmptyCache)]
            /\ UNCHANGED mpqMutex

LoadOpen(t) ==
    /\ pc[t] = "open"
    /\ UNCHANGED <<mpqCache, heap, last>>
    /\ \E openErr \in BOOLEAN :
        IF openErr
        THEN LoadReturn(t, Nil, "open error", FALSE)
        ELSE /\ pc' = [pc EXCEPT ![t] = "header"]
             /\ local' = [local EXCEPT ![t].result.File = "open", ![t].opened = TRUE]
             /\ UNCHANGED mpqMutex

LoadReadHeader(t) ==
    /\ pc[t] = "header"
    /\ UNCHANGED <<mpqCache, heap, last>>
    /\ \E hdr \in HeaderKinds :
        IF readHeader(hdr, "none").err # Nil
        THEN LoadReturn(t, Nil, readHeader(hdr, "none").err, FALSE)
        ELSE /\ pc' = [pc EXCEPT ![t] = "hashTable"]
             /\ UNCHANGED <<local, mpqMutex>>

LoadHashTable(t) ==
    /\ pc[t] = "hashTable"
    /\ UNCHANGED <<mpqCache, heap, last>>
    /\ \E io \in {"none", "hashSeek", "hashRead"} :
        IF readHeader("ok", io).panic
        THEN LoadReturn(t, Nil, Nil, TRUE)
        ELSE \E hashTable \in SampleHashTables :
             /\ pc' = [pc EXCEPT ![t] = "blockTable"]
             /\ local' = [local EXCEPT ![t].result.HashTableEntries = hashTable]
             /\ UNCHANGED mpqMutex

LoadBlockTable(t) ==
    /\ pc[t] = "blockTable"
    /\ UNCHANGED <<mpqCache, heap, last>>
    /\ \E io \in {"none", "blockSeek", "blockRead"} :
        IF readHeader("ok", io).panic
        THEN LoadReturn(t, Nil, Nil, TRUE)
        ELSE \E blockTable \in BlockTables :
             /\ pc' = [pc EXCEPT ![t] = "register"]
             /\ local' = [local EXCEPT ![t].result.BlockTableEntries = blockTable]
             /\ UNCHANGED mpqMutex

LoadRegister(t) ==
    /\ pc[t] = "register"
    /\ DOMAIN heap # Objs
    /\ heap' = [o \in (DOMAIN heap) \cup {NewObject} |->
                   IF o = NewObject THEN local[t].result ELSE heap[o]]
    /\ mpqCache' = Register(local[t].path, NewObject)
    /\ LoadReturn(t, NewObject, Nil, FALSE)
    /\ UNCHANGED last

InitLoad ==
    /\ mpqCache = [p \in LoadPaths |-> Nil]
    /\ heap = <<>>
    /\ last = NoObs
    /\ mpqMutex = {}
    /\ pc = [t \in Threads |-> "idle"]
    /\ local = [t \in Threads |-> IdleLocal]

NextLoad ==
    \/ \E t \in Threads, fileName \in LoadPaths : LoadLock(t, fileName)
    \/ \E t \in Threads : LoadCheck(t)
    \/ \E t \in Threads : LoadOpen(t)
    \/ \E t \in Threads : LoadReadHeader(t)
    \/ \E t \in Threads : LoadHashTable(t)
    \/ \E t \in Threads : LoadBlockTable(t)
    \/ \E t \in Threads : LoadRegister(t)

SpecLoad == InitLoad /\ [][NextLoad]_vars

\* C1: at most one thread is between the registry check and the registration; for
\* every path at most one object was built and registered; every Load that returned
\* an object returned the one registered under its path; and a Load that found its
\* path registered returned without opening the file.
C1_LoadBuildsOncePerPath ==
    /\ Cardinality({t \in Threads : pc[t] # "idle"}) <= 1
    /\ \A p \in LoadPaths : Cardinality({o \in DOMAIN heap : heap[o].FileName = p}) <= 1
    /\ \A t \in Threads :
        /\ (pc[t] = "idle" /\ local[t].ret # Nil) => mpqCache[local[t].path] = local[t].ret
        /\ local[t].hit => (local[t].ret # Nil /\ ~local[t].opened)

\* two threads loaded the same path: one built the archive, the other found it
C1_Witness ==
    \E t1, t2 \in Threads :
        /\ t1 # t2
        /\ pc[t1] = "idle" /\ pc[t2] = "idle"
        /\ local[t1].path = local[t2].path
        /\ local[t1].ret # Nil /\ local[t1].opened
        /\ local[t2].ret = local[t1].ret /\ local[t2].hit

(***************************************************************************)
(* ReadFile called from several threads on one archive (SpecRead),         *)
(* statement by statement.  A thread at "lookup" is reading v.fileCache, a *)
(* thread at "store" is writing it.                                        *)
(***************************************************************************)
ReadHashTable == <<HashEntry(Name_eng_a, 0), HashEntry(ListFileName, 1)>>

ReadArchive ==
    MPQ("d2data.mpq", "open", ReadHashTable, CHOOSE b \in BlockTables : TRUE, EmptyCache)

IdleRead ==
    [name |-> <<>>, key |-> <<>>, block |-> ZeroBlockTableEntry, buffer |-> <<>>,
     data |-> <<>>, err |-> Nil]

InMap(t) == pc[t] \in {"lookup", "store"}

\* another thread is in the map while t reads it (write) or writes it (any access)
Races(t) ==
    \E o \in Threads \ {t} :
        \/ pc[o] = "store"
        \/ pc[t] = "store" /\ pc[o] = "lookup"

\* the Go runtime detects the concurrent map access and ends the process
Fatal ==
    /\ pc' = [t \in Threads |-> "dead"]
    /\ last' = [NoObs EXCEPT !.op = "fatal", !.panic = TRUE,
                             !.err = "concurrent map access"]
    /\ UNCHANGED <<mpqCache, heap, mpqMutex, local>>

ReadReturn(t, data, err) ==
    /\ pc' = [pc EXCEPT ![t] = "idle"]
    /\ local' = [local EXCEPT ![t].data = data, ![t].err = err]

RdCall(t, fileName) ==
    /\ pc[t] = "idle"
    /\ pc' = [pc EXCEPT ![t] = "lookup"]
    /\ local' = [local EXCEPT ![t] = [IdleRead EXCEPT !.name = fileName,
                                                      !.key = NormalizeName(fileName)]]
    /\ UNCHANGED <<mpqCache, heap, last, mpqMutex>>

RdLookup(t) ==
    /\ pc[t] = "lookup"
    /\ \/ /\ UNCHANGED <<mpqCache, heap, last, mpqMutex>>
          /\ IF CacheHit(heap["o1"].fileCache, local[t].key)
             THEN ReadReturn(t, heap["o1"].fileCache[local[t].key], Nil)
             ELSE /\ pc' = [pc EXCEPT ![t] = "locate"]
                  /\ UNCHANGED local
       \/ /\ Races(t)
          /\ Fatal

RdLocate(t) ==
    /\ pc[t] = "locate"
    /\ UNCHANGED <<mpqCache, heap, last, mpqMutex>>
    /\ LET r == getFileBlockData(heap["o1"], local[t].key)
       IN  IF r.err # Nil
           THEN ReadReturn(t, <<>>, r.err)
           ELSE /\ pc' = [pc EXCEPT ![t] = "stream"]
                /\ local' = [local EXCEPT ![t].block =
                       calculateEncryptionSeed([r.entry EXCEPT !.FileName = ToLower(local[t].key)])]

RdStream(t) ==
    /\ pc[t] = "stream"
    /\ UNCHANGED <<mpqCache, heap, last, mpqMutex>>
    /\ \E outcome \in StreamOutcomes :
        IF CreateStream(heap["o1"], local[t].block, outcome) # Nil
        THEN ReadReturn(t, <<>>, CreateStream(heap["o1"], local[t].block, outcome))
        ELSE /\ pc' = [pc EXCEPT ![t] = "store"]
             /\ local' = [local EXCEPT ![t].buffer = StreamRead(local[t].block)]

RdStore(t) ==
    /\ pc[t] = "store"
    /\ \/ /\ heap' = [heap EXCEPT !["o1"].fileCache =
                         CachePut(heap["o1"].fileCache, local[t].key, local[t].buffer)]
          /\ ReadReturn(t, local[t].buffer, Nil)
          /\ UNCHANGED <<mpqCache, last, mpqMutex>>
       \/ /\ Races(t)
          /\ Fatal

InitRead ==
    /\ mpqCache = [p \in Paths |-> "o1"]
    /\ heap = [o \in {"o1"} |-> ReadArchive]
    /\ last = NoObs
    /\ mpqMutex = {}
    /\ pc = [t \in Threads |-> "idle"]
    /\ local = [t \in Threads |-> IdleRead]

NextRead ==
    \/ \E t \in Threads, fileName \in Names : RdCall(t, fileName)
    \/ \E t \in Threads : RdLookup(t)
    \/ \E t \in Threads : RdLocate(t)
    \/ \E t \in Threads : RdStream(t)
    \/ \E t \in Threads : RdStore(t)

SpecRead == InitRead /\ [][NextRead]_vars

\* C5: two threads that read different names are never in the content-cache map at
\* the same time when one of them writes it.
C5_CacheMapAccessExclusive ==
    \A t1, t2 \in Threads :
        (t1 # t2 /\ local[t1].key # local[t2].key) =>
            ~(pc[t1] = "store" /\ InMap(t2))

====
